---- MODULE Spec2Model ----
(***************************************************************************)
(* A model of the virtual file system facade FsManager                     *)
(* (src/lib/filesystem/FsManager.ts): the path router, the delegation of   *)
(* every operation to the root Drive or to a mounted Drive, the synthetic  *)
(* "mnt" folder of the namespace root, the start-up run that creates the   *)
(* well-known folders and the registry file, and the atom cache with its   *)
(* refresh timers; and of the window reducer (src/unnamed/part_000).       *)
(*                                                                         *)
(* A JavaScript string is a sequence of one-character strings, so that     *)
(* split("/") and join("/") are computed and not assumed.                  *)
(***************************************************************************)
EXTENDS Integers, Sequences, FiniteSets, TLC

VARIABLES
    mountedDrives,  \* FsManager.mountedDrives: drive name -> that Drive's store
    rootStore,      \* the store behind FsManager.rootDrive
    call,           \* the FsManager operation a caller ran last, with its arguments
    deleg,          \* the Drive calls that operation made
    result,         \* what that operation returned or threw
    ops,            \* how many FsManager operations have run
    atomsMap,       \* shallowAtoms, deepAtoms and fileAtoms: key -> atom, 0 for none
    atoms,          \* every atom created so far, with its state in the jotai store
    handle,         \* per consumer: the atom its last getFolderAtom / getFileAtom returned
    subscribed,     \* per consumer: whether it is subscribed to that atom
    boot,           \* per run of setupDefaultDirectories: where it is, and how it ended
    probe,          \* the call of hasSystemData in progress, and what the last one returned
    win,            \* the WindowState of one window atom
    winOps          \* how many actions the window reducer has taken

fsVars == <<mountedDrives, rootStore, call, deleg, result, ops>>
cacheVars == <<atomsMap, atoms, handle, subscribed>>
bootVars == <<boot, probe>>
winVars == <<win, winOps>>
vars == <<mountedDrives, rootStore, call, deleg, result, ops, atomsMap, atoms, handle,
          subscribed, boot, probe, win, winOps>>

-----------------------------------------------------------------------------
(* Strings *)

Slash == <<"/">>
MNT == <<"m", "n", "t">>
EmptyStr == <<>>

\* String.prototype.split("/"): the pieces between the separators; "" gives [""].
RECURSIVE Split(_)
Split(s) ==
    IF s = <<>> THEN << <<>> >>
    ELSE LET rest == Split(Tail(s)) IN
         IF Head(s) = "/" THEN << <<>> >> \o rest
         ELSE << <<Head(s)>> \o Head(rest) >> \o Tail(rest)

\* Array.prototype.join("/"): [] gives "".
RECURSIVE JoinSlash(_)
JoinSlash(parts) ==
    IF Len(parts) = 0 THEN <<>>
    ELSE IF Len(parts) = 1 THEN parts[1]
    ELSE parts[1] \o Slash \o JoinSlash(Tail(parts))

\* Array.prototype.slice(n): the elements from index n (0-based) on.
Slice(parts, n) == SubSeq(parts, n + 1, Len(parts))

-----------------------------------------------------------------------------
(* Values *)

Null == [type |-> "null"]
Void == [type |-> "void"]
TypeError == [type |-> "error", kind |-> "TypeError"]
NotFound == [type |-> "error", kind |-> "NotFound"]
StoreFailure == [type |-> "error", kind |-> "BackingStoreFailure"]

IsError(v) == v.type = "error"

\* What an atom holds: nothing before its first read, then the promise its read
\* function returned, which is pending, resolved or rejected.
Unread == [type |-> "unread"]
Pending == [type |-> "pending"]
Resolved(v) == [type |-> "resolved", value |-> v]
Rejected(e) == [type |-> "rejected", error |-> e]

\* What a Drive reference of FsManager can be.
RootDrive == [kind |-> "root", name |-> EmptyStr]
Mounted(n) == [kind |-> "mounted", name |-> n]
NotADrive(n) == [kind |-> "notDrive", name |-> n]
NoDrive == [kind |-> "null", name |-> EmptyStr]

-----------------------------------------------------------------------------
(* The path router *)

\* Some of the names an object literal inherits from Object.prototype: the
\* lookup mountedDrives[name] finds them although no drive has that name.
ObjectPrototypeKeys ==
    { <<"c","o","n","s","t","r","u","c","t","o","r">>,
      <<"t","o","S","t","r","i","n","g">>,
      <<"v","a","l","u","e","O","f">> }

\* this.mountedDrives[name] || null
LookupDrive(name) ==
    IF name \in DOMAIN mountedDrives THEN Mounted(name)
    ELSE IF name \in ObjectPrototypeKeys THEN NotADrive(name)
    ELSE NoDrive

\* parts[1] === "mnt" && parts[2]: an index past the end reads undefined, and
\* undefined and "" are falsy.
getMountedDriveForPath(path) ==
    LET parts == Split(path) IN
    IF (Len(parts) >= 2 /\ parts[2] = MNT) /\ (Len(parts) >= 3 /\ parts[3] # EmptyStr)
    THEN LookupDrive(parts[3])
    ELSE NoDrive

\* A mutant of getRelativePath: the drive name is kept in the relative path.
getRelativePath_keepsDriveName(path) == Slash \o JoinSlash(Slice(Split(path), 2))

\* "/" + parts.slice(3).join("/")
getRelativePath(path) == Slash \o JoinSlash(Slice(Split(path), 3))

\* The test `if (mountedDrive)` of every operation.
Truthy(drive) == drive.kind # "null"

-----------------------------------------------------------------------------
(* A Drive over its store.  A store maps the segment list of every node    *)
(* that exists to [type |-> "folder"] or [type |-> "file", content |-> c]; *)
(* the root <<>> is a folder and always exists.                            *)

FolderNode == [type |-> "folder"]
FileNode(c) == [type |-> "file", content |-> c]
EmptyStore == (<<>> :> FolderNode)

\* The segments a Drive walks: the non-empty pieces of the path.
NonEmptySeg(seg) == seg # EmptyStr
DriveSegs(path) == SelectSeq(Split(path), NonEmptySeg)

IsPrefix(p, q) == Len(p) <= Len(q) /\ SubSeq(q, 1, Len(p)) = p
ProperPrefixes(segs) == { SubSeq(segs, 1, k) : k \in 0..(Len(segs) - 1) }
Exists(st, segs) == segs \in DOMAIN st
IsFile(st, segs) == Exists(st, segs) /\ st[segs].type = "file"
IsFolder(st, segs) == Exists(st, segs) /\ st[segs].type = "folder"
NodeName(segs) == IF segs = <<>> THEN EmptyStr ELSE segs[Len(segs)]
ChildNames(st, segs) ==
    { q[Len(q)] : q \in { r \in DOMAIN st : Len(r) = Len(segs) + 1 /\ IsPrefix(segs, r) } }

\* The outcome of a Drive call: the value returned or thrown, and the store after it.
Outcome(v, st) == [value |-> v, store |-> st]

\* The store with `entries` (segment list -> node) written and every missing
\* ancestor folder created.
WithEntries(st, entries) ==
    LET anc == UNION { ProperPrefixes(p) : p \in DOMAIN entries }
        dom == DOMAIN st \cup anc \cup DOMAIN entries
    IN [p \in dom |-> IF p \in DOMAIN entries THEN entries[p]
                      ELSE IF p \in DOMAIN st THEN st[p]
                      ELSE FolderNode]

\* An ancestor that is a file blocks every write below it.
Blocked(st, segs) == \E p \in ProperPrefixes(segs) : IsFile(st, p)

DriveWriteFile(st, path, content) ==
    LET segs == DriveSegs(path) IN
    IF segs = <<>> \/ Blocked(st, segs) \/ IsFolder(st, segs)
    THEN Outcome(StoreFailure, st)
    ELSE Outcome(Void, WithEntries(st, segs :> FileNode(content)))

DriveCreateFolder(st, path) ==
    LET segs == DriveSegs(path) IN
    IF IsFolder(st, segs) THEN Outcome(Void, st)
    ELSE IF Blocked(st, segs) \/ IsFile(st, segs) THEN Outcome(StoreFailure, st)
    ELSE Outcome(Void, WithEntries(st, segs :> FolderNode))

DriveDelete(st, path) ==
    LET segs == DriveSegs(path) IN
    IF segs = <<>> THEN Outcome(StoreFailure, st)
    ELSE IF ~Exists(st, segs) THEN Outcome(NotFound, st)
    ELSE Outcome(Void, [p \in { q \in DOMAIN st : ~IsPrefix(segs, q) } |-> st[p]])

StubFile(name) == [type |-> "file", name |-> name]
DeepFile(name, content) == [type |-> "file", name |-> name, content |-> content]
FolderStub(name) == [type |-> "folder", name |-> name]
Folder(name, items) == [type |-> "folder", name |-> name, items |-> items]

\* The fully resolved node at segs (which exists).
RECURSIVE DeepNode(_, _)
DeepNode(st, segs) ==
    IF st[segs].type = "file" THEN DeepFile(NodeName(segs), st[segs].content)
    ELSE Folder(NodeName(segs),
                [n \in ChildNames(st, segs) |-> DeepNode(st, segs \o <<n>>)])

\* One level: the children of a folder by name and kind only.
ShallowNode(st, segs) ==
    IF st[segs].type = "file" THEN StubFile(NodeName(segs))
    ELSE Folder(NodeName(segs),
                [n \in ChildNames(st, segs) |->
                    IF st[segs \o <<n>>].type = "file" THEN StubFile(n) ELSE FolderStub(n)])

NodeAt(st, segs, depth) ==
    IF depth = "deep" THEN DeepNode(st, segs) ELSE ShallowNode(st, segs)

DriveGetItem(st, path, depth) ==
    LET segs == DriveSegs(path) IN
    Outcome(IF Exists(st, segs) THEN NodeAt(st, segs, depth) ELSE Null, st)

DriveGetFile(st, path, depth) ==
    LET segs == DriveSegs(path) IN
    Outcome(IF IsFile(st, segs) THEN NodeAt(st, segs, depth) ELSE Null, st)

DriveGetFolder(st, path, depth) ==
    LET segs == DriveSegs(path) IN
    Outcome(IF IsFolder(st, segs) THEN NodeAt(st, segs, depth) ELSE Null, st)

\* The nodes a deep item writes, by their segment lists below `at`.
RECURSIVE ItemEntries(_, _)
ItemEntries(at, item) ==
    IF item.type = "file" THEN { <<at, FileNode(item.content)>> }
    ELSE { <<at, FolderNode>> }
         \cup UNION { ItemEntries(at \o <<n>>, item.items[n]) : n \in DOMAIN item.items }

\* insert: the inverse of a deep read.  It fails when a node it writes meets a
\* node of the other kind, or a file among the ancestors.
DriveInsert(st, path, item) ==
    LET segs == DriveSegs(path)
        pairs == ItemEntries(segs, item)
        entries == [p \in { e[1] : e \in pairs } |-> (CHOOSE e \in pairs : e[1] = p)[2]]
        clash == \E p \in DOMAIN entries :
                    \/ Blocked(st, p)
                    \/ (Exists(st, p) /\ st[p].type # entries[p].type)
    IN IF clash THEN Outcome(StoreFailure, st)
       ELSE Outcome(Void, WithEntries(st, entries))

\* move: the node at oldPath and everything below it goes to newPath, with
\* missing ancestors of newPath created.  It fails when nothing is at oldPath,
\* and when newPath is taken, is the root, or lies at or below oldPath.
DriveMove(st, oldPath, newPath) ==
    LET from == DriveSegs(oldPath)
        to == DriveSegs(newPath)
        below == { q \in DOMAIN st : IsPrefix(from, q) }
        kept == [p \in DOMAIN st \ below |-> st[p]]
        moved == [p \in { to \o Slice(q, Len(from)) : q \in below } |->
                    st[from \o Slice(p, Len(to))]]
    IN IF from = <<>> THEN Outcome(StoreFailure, st)
       ELSE IF ~Exists(st, from) THEN Outcome(NotFound, st)
       ELSE IF to = <<>> \/ Exists(st, to) \/ IsPrefix(from, to) \/ Blocked(st, to)
            THEN Outcome(StoreFailure, st)
       ELSE Outcome(Void, WithEntries(kept, moved))

-----------------------------------------------------------------------------
(* FsManager *)

StoreOf(drive) == IF drive.kind = "root" THEN rootStore ELSE mountedDrives[drive.name]

\* A method of Drive, by name.
DriveMethod(method, st, path, arg) ==
    CASE method = "writeFile" -> DriveWriteFile(st, path, arg.content)
      [] method = "createFolder" -> DriveCreateFolder(st, path)
      [] method = "delete" -> DriveDelete(st, path)
      [] method = "getItem" -> DriveGetItem(st, path, arg.depth)
      [] method = "getFolder" -> DriveGetFolder(st, path, arg.depth)
      [] method = "getFile" -> DriveGetFile(st, path, arg.depth)
      [] method = "insert" -> DriveInsert(st, path, arg.item)

DriveCall(drive, method, path) == [drive |-> drive, method |-> method, path |-> path]

\* What an operation of FsManager did: the value it returned or threw, the
\* Drive calls it made, and the stores after it.
Effect(v, calls, root, mounted) ==
    [value |-> v, calls |-> calls, root |-> root, mounted |-> mounted]

\* drive.method(path, ...): a value that is no Drive has no such method, and
\* calling it throws a TypeError before any Drive is reached.
Invoke(drive, method, path, arg) ==
    IF drive.kind = "notDrive" THEN Effect(TypeError, {}, rootStore, mountedDrives)
    ELSE LET out == DriveMethod(method, StoreOf(drive), path, arg) IN
         Effect(out.value, { DriveCall(drive, method, path) },
                IF drive.kind = "root" THEN out.store ELSE rootStore,
                IF drive.kind = "root" THEN mountedDrives
                ELSE [mountedDrives EXCEPT ![drive.name] = out.store])

\* The body shared by writeFile, createFolder, delete, getItem, getFile, insert
\* and the second half of getFolder.
Routed(method, path, arg) ==
    LET mountedDrive == getMountedDriveForPath(path) IN
    IF Truthy(mountedDrive)
    THEN LET relativePath == getRelativePath(path) IN
         Invoke(mountedDrive, method, relativePath, arg)
    ELSE Invoke(RootDrive, method, path, arg)

Arg(depth, content, item) == [depth |-> depth, content |-> content, item |-> item]
NoDepth == "none"
NoContent == "none"

\* A mutant of writeFile: the mounted drive gets the path as it came.
writeFile_noRewrite(path, content) ==
    LET mountedDrive == getMountedDriveForPath(path) IN
    Invoke(IF Truthy(mountedDrive) THEN mountedDrive ELSE RootDrive, "writeFile", path,
           Arg(NoDepth, content, Null))

writeFile(path, content) == Routed("writeFile", path, Arg(NoDepth, content, Null))
createFolder(path) == Routed("createFolder", path, Arg(NoDepth, NoContent, Null))
delete(path) == Routed("delete", path, Arg(NoDepth, NoContent, Null))
getFile(path, depth) == Routed("getFile", path, Arg(depth, NoContent, Null))
insert(path, item) == Routed("insert", path, Arg(NoDepth, NoContent, item))

\* A mutant of mntFolder: a deep read leaves out the drives that hold nothing.
mntFolder_deepSkipsEmpty(depth) ==
    Folder(MNT,
           IF depth = "deep"
           THEN [name \in { n \in DOMAIN mountedDrives : ChildNames(mountedDrives[n], <<>>) # {} } |->
                    DriveGetFolder(mountedDrives[name], Slash, "deep").value]
           ELSE [name \in DOMAIN mountedDrives |-> FolderStub(name)])

\* The "mnt" folder getFolder("/") adds to the root listing.
mntFolder(depth) ==
    Folder(MNT,
           IF depth = "deep"
           THEN [name \in DOMAIN mountedDrives |->
                    DriveGetFolder(mountedDrives[name], Slash, "deep").value]
           ELSE [name \in DOMAIN mountedDrives |-> FolderStub(name)])

\* A mutant of ShouldInject: the number of mounted drives is not looked at.
ShouldInject_anyMountTable(rootFolder) == rootFolder # Null

\* rootFolder && Object.keys(this.mountedDrives).length > 0
ShouldInject(rootFolder) == rootFolder # Null /\ Cardinality(DOMAIN mountedDrives) > 0

\* A mutant of InjectMnt: an entry of the root store named "mnt" is kept.
InjectMnt_keepsRealEntry(rootFolder, depth) ==
    [rootFolder EXCEPT !.items =
        [n \in DOMAIN rootFolder.items \cup {MNT} |->
            IF n \in DOMAIN rootFolder.items THEN rootFolder.items[n] ELSE mntFolder(depth)]]

\* rootFolder.items["mnt"] = mntFolder: a real entry of that name is replaced.
InjectMnt(rootFolder, depth) ==
    [rootFolder EXCEPT !.items =
        [n \in DOMAIN rootFolder.items \cup {MNT} |->
            IF n = MNT THEN mntFolder(depth) ELSE rootFolder.items[n]]]

\* The Drive calls of getFolder("/"): the root listing, and for a deep read
\* the deep root of every mounted drive.
RootCalls(rootFolder, depth) ==
    { DriveCall(RootDrive, "getFolder", Slash) }
    \cup (IF ShouldInject(rootFolder) /\ depth = "deep"
          THEN { DriveCall(Mounted(name), "getFolder", Slash) : name \in DOMAIN mountedDrives }
          ELSE {})

getFolder(path, depth) ==
    IF path = Slash
    THEN LET rootFolder == DriveGetFolder(rootStore, path, depth).value IN
         Effect(IF ShouldInject(rootFolder) THEN InjectMnt(rootFolder, depth) ELSE rootFolder,
                RootCalls(rootFolder, depth), rootStore, mountedDrives)
    ELSE Routed("getFolder", path, Arg(depth, NoContent, Null))

\* A mutant of getItem: the namespace root is answered as getFolder answers it.
getItem_injectsAtRoot(path, depth) ==
    IF path = Slash THEN getFolder(path, depth)
    ELSE Routed("getItem", path, Arg(depth, NoContent, Null))

getItem(path, depth) == Routed("getItem", path, Arg(depth, NoContent, Null))

\* drive.move(oldPath, newPath) on the one drive that move resolved.
InvokeMove(drive, oldPath, newPath) ==
    IF drive.kind = "notDrive" THEN Effect(TypeError, {}, rootStore, mountedDrives)
    ELSE LET out == DriveMove(StoreOf(drive), oldPath, newPath) IN
         Effect(out.value, { DriveCall(drive, "move", oldPath) },
                IF drive.kind = "root" THEN out.store ELSE rootStore,
                IF drive.kind = "root" THEN mountedDrives
                ELSE [mountedDrives EXCEPT ![drive.name] = out.store])

\* The drive is looked up for oldPath alone; newPath loses its first three
\* pieces when oldPath is on a mounted drive and is passed as it came otherwise.
move(oldPath, newPath) ==
    LET mountedDrive == getMountedDriveForPath(oldPath) IN
    IF Truthy(mountedDrive)
    THEN LET relativeOldPath == getRelativePath(oldPath)
             relativeNewPath == getRelativePath(newPath)
         IN InvokeMove(mountedDrive, relativeOldPath, relativeNewPath)
    ELSE InvokeMove(RootDrive, oldPath, newPath)

-----------------------------------------------------------------------------
(* The inputs *)

MaxOps == 2

X == <<"X">>
Y == <<"Y">>
SegA == <<"a">>
SegB == <<"b">>

\* "/" followed by the segments.
PathOf(segs) == Slash \o JoinSlash(segs)

MountTables == { {}, {X}, {X, Y} }

Paths ==
    { Slash,
      PathOf(<<SegA>>),
      PathOf(<<MNT>>),
      PathOf(<<MNT, X>>),
      PathOf(<<MNT, X, SegA>>),
      PathOf(<<MNT, X, SegA, SegB>>),
      PathOf(<<MNT, Y, SegA>>),
      PathOf(<<MNT, <<"x">>, SegA>>),
      PathOf(<<<<"M", "n", "t">>, X, SegA>>),
      PathOf(<<MNT, EmptyStr, SegA>>),
      PathOf(<<MNT, <<"c","o","n","s","t","r","u","c","t","o","r">>, SegA>>) }

Contents == { "hi", "yo" }
Depths == { "shallow", "deep" }
Items == { DeepFile(SegA, "hi"), Folder(SegA, (SegB :> DeepFile(SegB, "yo"))) }

NumConsumers == 2
MaxAtoms == 2

Consumers == 1..NumConsumers
\* The keys of shallowAtoms, deepAtoms and fileAtoms that the consumers ask for:
\* two depths of one path, and a file at another path.
Keys ==
    { [map |-> "shallow", path |-> Slash],
      [map |-> "deep", path |-> Slash],
      [map |-> "file", path |-> PathOf(<<SegA>>)] }
NoAtom == 0

MaxRuns == 2
MaxWinOps == 3

\* The runs of setupDefaultDirectories: the first is the one the constructor
\* starts, the others are calls of a client.
Runs == 1..MaxRuns
ByConstructor == 1

\* What a RESIZE and a MOVE carry, and what an INIT carries.
Sides == { "top", "bottom", "left", "right", "top-left", "top-right", "bottom-left",
           "bottom-right" }
Deltas == { -250, 30 }
Moves == { [dx |-> 10, dy |-> -20] }
Inits == { [title |-> "Run", program |-> "run", id |-> "w2"] }

-----------------------------------------------------------------------------
(* The start-up run and the existence probe *)

\* The well-known paths: three top-level folders, and the registry file.
SYSTEM_PATH == PathOf(<< <<"s","y","s","t","e","m">> >>)
PROGRAMS_PATH == PathOf(<< <<"p","r","o","g","r","a","m","s">> >>)
USER_PATH == PathOf(<< <<"u","s","e","r">> >>)
REGISTRY_PATH == PathOf(<< <<"s","y","s","t","e","m">>, <<"r","e","g">> >>)

defaultDirs == <<SYSTEM_PATH, PROGRAMS_PATH, USER_PATH>>

\* A run of setupDefaultDirectories is at the call it awaits next: `pc` names
\* that call and `dir` the entry of defaultDirs it is about.  `caller` is who
\* started it, `error` what it threw, `made` counts the createFolder and
\* writeFile calls it has made, and `again` records that another run had
\* returned when this one started.
NotCalled ==
    [pc |-> "idle", dir |-> 0, caller |-> "none", error |-> Void, made |-> 0,
     again |-> FALSE]
Started(caller, again) ==
    [pc |-> "getFolder", dir |-> 1, caller |-> caller, error |-> Void, made |-> 0,
     again |-> again]
AwaitedCalls == { "getFolder", "createFolder", "getFile", "writeFile" }

\* The FsManager call the run awaits at its position.
AwaitedCall(run) ==
    CASE run.pc = "getFolder" -> getFolder(defaultDirs[run.dir], "shallow")
      [] run.pc = "createFolder" -> createFolder(defaultDirs[run.dir])
      [] run.pc = "getFile" -> getFile(REGISTRY_PATH, "shallow")
      [] run.pc = "writeFile" -> writeFile(REGISTRY_PATH, "{}")

\* The next turn of `for (const dir of defaultDirs)`, and the registry after it.
NextDir(run) ==
    IF run.dir < Len(defaultDirs) THEN [run EXCEPT !.pc = "getFolder", !.dir = @ + 1]
    ELSE [run EXCEPT !.pc = "getFile"]

\* A mutant of Resume: the folder is created whatever getFolder returned.
Resume_createsAlways(run, value) ==
    IF IsError(value) THEN [run EXCEPT !.pc = "threw", !.error = value]
    ELSE CASE run.pc = "getFolder" -> [run EXCEPT !.pc = "createFolder"]
           [] run.pc = "createFolder" -> NextDir(run)
           [] run.pc = "getFile" ->
                IF value = Null THEN [run EXCEPT !.pc = "writeFile"]
                ELSE [run EXCEPT !.pc = "returned"]
           [] run.pc = "writeFile" -> [run EXCEPT !.pc = "returned"]

\* The run after the call it awaited gave `value`: an error is thrown on, null
\* is falsy and is what makes the run create the folder or write the file.
Resume(run, value) ==
    IF IsError(value) THEN [run EXCEPT !.pc = "threw", !.error = value]
    ELSE CASE run.pc = "getFolder" ->
                IF value = Null THEN [run EXCEPT !.pc = "createFolder"] ELSE NextDir(run)
           [] run.pc = "createFolder" -> NextDir(run)
           [] run.pc = "getFile" ->
                IF value = Null THEN [run EXCEPT !.pc = "writeFile"]
                ELSE [run EXCEPT !.pc = "returned"]
           [] run.pc = "writeFile" -> [run EXCEPT !.pc = "returned"]

\* What the caller of the run holds of it.  The constructor calls
\* setupDefaultDirectories() as a statement and drops the promise; any other
\* caller gets the promise, which rejects with what the run threw.
Received(run) ==
    IF run.caller = "constructor" THEN Void
    ELSE IF run.pc = "threw" THEN run.error
    ELSE IF run.pc = "returned" THEN Void
    ELSE Pending

\* A mutant of hasSystemData: anything at the system path counts.
hasSystemData_anyItem ==
    LET system == getItem(SYSTEM_PATH, "shallow") IN
    [system EXCEPT !.value = IF IsError(@) THEN @ ELSE @ # Null]

\* hasSystemData: !!(await this.getFolder(SYSTEM_PATH, "shallow"))
hasSystemData ==
    LET system == getFolder(SYSTEM_PATH, "shallow") IN
    [system EXCEPT !.value = IF IsError(@) THEN @ ELSE @ # Null]

\* The call of hasSystemData: `atStart` records whether the system folder
\* existed when the call was made.
NoProbe == [pc |-> "idle", atStart |-> FALSE, value |-> FALSE]

-----------------------------------------------------------------------------
(* The window reducer *)

\* size.height is a number or "auto".
Auto == [kind |-> "auto"]
Px(n) == [kind |-> "px", n |-> n]

\* The state of the atom windowAtomFamily(id) makes.
InitialWindow(id) ==
    [status |-> "normal", pos |-> [x |-> 100, y |-> 100],
     size |-> [width |-> 400, height |-> Auto],
     title |-> "Welcome to Windows 96", program |-> "welcome", id |-> id]

MIN_WINDOW_SIZE == [width |-> 300, height |-> 100]

MathMax(a, b) == IF a >= b THEN a ELSE b

\* A mutant of clampSize: the size is returned as it came.
clampSize_noMinimum(size) == size

clampSize(size) ==
    [width |-> MathMax(size.width, MIN_WINDOW_SIZE.width),
     height |-> IF size.height = Auto THEN Auto
                ELSE Px(MathMax(size.height.n, MIN_WINDOW_SIZE.height))]

\* (state.size.height === "auto" ? 0 : state.size.height) + delta
HeightPlus(height, delta) == Px((IF height = Auto THEN 0 ELSE height.n) + delta)

handleResize(state, payload) ==
    LET side == payload.side
        Grow(w, h) == [state.size EXCEPT !.width = @ + w, !.height = HeightPlus(@, h)]
        Wider(w) == [state.size EXCEPT !.width = @ + w]
        Taller(h) == [state.size EXCEPT !.height = HeightPlus(@, h)]
    IN CASE side = "top" ->
              LET delta == -payload.dy IN
              [state EXCEPT !.size = Taller(delta), !.pos.y = @ - delta]
         [] side = "bottom" ->
              LET delta == payload.dy IN [state EXCEPT !.size = Taller(delta)]
         [] side = "left" ->
              LET delta == -payload.dx IN
              [state EXCEPT !.size = Wider(delta), !.pos.x = @ - delta]
         [] side = "right" ->
              LET delta == payload.dx IN [state EXCEPT !.size = Wider(delta)]
         [] side = "bottom-right" ->
              [state EXCEPT !.size = Grow(payload.dx, payload.dy)]
         [] side = "top-right" ->
              LET dx == payload.dx
                  dy == -payload.dy
              IN [state EXCEPT !.size = Grow(dx, dy), !.pos.y = @ - dy]
         [] side = "bottom-left" ->
              LET dx == -payload.dx
                  dy == payload.dy
              IN [state EXCEPT !.size = Grow(dx, dy), !.pos.x = @ - dx]
         [] side = "top-left" ->
              LET dx == -payload.dx
                  dy == -payload.dy
              IN [state EXCEPT !.size = Grow(dx, dy), !.pos.x = @ - dx, !.pos.y = @ - dy]

windowReducer(state, action) ==
    CASE action.type = "TOGGLE_MAXIMIZE" ->
            [state EXCEPT !.status = IF @ = "maximized" THEN "normal" ELSE "maximized"]
      [] action.type = "TOGGLE_MINIMIZE" ->
            [state EXCEPT !.status = IF @ = "minimized" THEN "normal" ELSE "minimized"]
      [] action.type = "MOVE" ->
            IF state.status = "maximized" \/ state.status = "minimized" THEN state
            ELSE [state EXCEPT !.pos = [x |-> state.pos.x + action.payload.dx,
                                        y |-> state.pos.y + action.payload.dy]]
      [] action.type = "RESTORE" -> [state EXCEPT !.status = "normal"]
      [] action.type = "INIT" ->
            [state EXCEPT !.title = action.payload.title,
                          !.program = action.payload.program,
                          !.id = action.payload.id]
      [] action.type = "RESIZE" ->
            LET newState == handleResize(state, action.payload) IN
            [newState EXCEPT !.size = clampSize(newState.size)]

-----------------------------------------------------------------------------
(* The operations as steps *)

Call(op, path, arg) ==
    [op |-> op, path |-> path, depth |-> arg.depth, content |-> arg.content,
     item |-> arg.item]
NoCall == Call("none", EmptyStr, Arg(NoDepth, NoContent, Null))

\* new FsManager(rootHandle, mountedDrives) over the given stores: no operation
\* has run, the maps of atoms are empty, and the run of setupDefaultDirectories
\* that the constructor starts has made no call yet.
Constructed(root, mounted) ==
    /\ mountedDrives = mounted
    /\ rootStore = root
    /\ call = NoCall
    /\ deleg = {}
    /\ result = Void
    /\ ops = 0
    /\ atomsMap = [k \in Keys |-> NoAtom]
    /\ atoms = <<>>
    /\ handle = [c \in Consumers |-> NoAtom]
    /\ subscribed = [c \in Consumers |-> FALSE]
    /\ boot = [r \in Runs |-> IF r = ByConstructor THEN Started("constructor", FALSE)
                               ELSE NotCalled]
    /\ probe = NoProbe
    /\ win = InitialWindow("w1")
    /\ winOps = 0

Init == \E names \in MountTables : Constructed(EmptyStore, [n \in names |-> EmptyStore])

\* A caller runs an operation: `c` is the call and `eff` what it did.
Ran(c, eff) ==
    /\ ops < MaxOps
    /\ ops' = ops + 1
    /\ call' = c
    /\ deleg' = eff.calls
    /\ result' = eff.value
    /\ rootStore' = eff.root
    /\ mountedDrives' = eff.mounted
    /\ UNCHANGED <<cacheVars, bootVars, winVars>>

Step(op, path, arg, eff) == Ran(Call(op, path, arg), eff)

WriteFile ==
    \E path \in Paths, content \in Contents :
        Step("writeFile", path, Arg(NoDepth, content, Null), writeFile(path, content))

CreateFolder ==
    \E path \in Paths :
        Step("createFolder", path, Arg(NoDepth, NoContent, Null), createFolder(path))

Delete ==
    \E path \in Paths :
        Step("delete", path, Arg(NoDepth, NoContent, Null), delete(path))

GetItem ==
    \E path \in Paths, depth \in Depths :
        Step("getItem", path, Arg(depth, NoContent, Null), getItem(path, depth))

GetFolder ==
    \E path \in Paths, depth \in Depths :
        Step("getFolder", path, Arg(depth, NoContent, Null), getFolder(path, depth))

GetFile ==
    \E path \in Paths, depth \in Depths :
        Step("getFile", path, Arg(depth, NoContent, Null), getFile(path, depth))

Insert ==
    \E path \in Paths, item \in Items :
        Step("insert", path, Arg(NoDepth, NoContent, item), insert(path, item))

Next ==
    \/ WriteFile
    \/ CreateFolder
    \/ Delete
    \/ GetItem
    \/ GetFolder
    \/ GetFile
    \/ Insert

\* The operations a caller runs, one after the other.  The runs of
\* setupDefaultDirectories are the subject of SpecBoot and SpecStartup.
Spec == Init /\ [][Next]_vars

-----------------------------------------------------------------------------
(* The atom cache.  An atom is known by its place in `atoms`; the jotai     *)
(* store keeps its listeners and the promise its read function returned,   *)
(* and calls onMount when the first listener arrives and the function      *)
(* onMount returned when the last one leaves.                              *)


\* atomWithRefresh(read): not read yet, not mounted.  `removed` records that
\* the function returned by its onMount has run, and `lastGood` the last
\* promise of the atom that resolved.
NewAtom(key) ==
    [key |-> key, listeners |-> {}, timers |-> 0, value |-> Unread, removed |-> FALSE,
     lastGood |-> Unread]

\* The read function of the atom: this.getFolder(path, depth) or
\* this.getFile(path, "deep").
ReadAtom(key) ==
    IF key.map = "file" THEN getFile(key.path, "deep").value
    ELSE getFolder(key.path, key.map).value

\* if (!atomsMap[path]) { ... atomsMap[path] = atom } return atomsMap[path]
GetAtom(c, key) ==
    /\ ~subscribed[c]
    /\ IF atomsMap[key] = NoAtom
       THEN /\ Len(atoms) < MaxAtoms
            /\ atoms' = Append(atoms, NewAtom(key))
            /\ atomsMap' = [atomsMap EXCEPT ![key] = Len(atoms) + 1]
       ELSE UNCHANGED <<atoms, atomsMap>>
    /\ handle' = [handle EXCEPT ![c] = atomsMap'[key]]
    /\ UNCHANGED <<subscribed, fsVars, bootVars, winVars>>

GetFolderAtom ==
    \E c \in Consumers, key \in Keys :
        /\ key.map \in Depths
        /\ GetAtom(c, key)

GetFileAtom ==
    \E c \in Consumers, key \in Keys :
        /\ key.map = "file"
        /\ GetAtom(c, key)

\* onMount: setInterval(() => set(), 500)
OnMount(atom) == [atom EXCEPT !.timers = @ + 1]

\* The function onMount returned: clearInterval(interval); delete atomsMap[path]
OnUnmount(atom) == [atom EXCEPT !.timers = 0, !.removed = TRUE]
MapAfterUnmount(atom) == [atomsMap EXCEPT ![atom.key] = NoAtom]

\* The store reads an atom it mounts: one never read starts its first fetch.
FirstRead(atom) == IF atom.value = Unread THEN [atom EXCEPT !.value = Pending] ELSE atom

\* A consumer subscribes to the atom it holds.
Subscribe ==
    \E c \in Consumers :
        /\ handle[c] # NoAtom
        /\ ~subscribed[c]
        /\ LET a == handle[c]
               joined == [atoms[a] EXCEPT !.listeners = @ \cup {c}]
           IN atoms' = [atoms EXCEPT ![a] =
                            IF atoms[a].listeners = {} THEN FirstRead(OnMount(joined))
                            ELSE joined]
        /\ subscribed' = [subscribed EXCEPT ![c] = TRUE]
        /\ UNCHANGED <<atomsMap, handle, fsVars, bootVars, winVars>>

\* A consumer unsubscribes; the last one to leave unmounts the atom.
Unsubscribe ==
    \E c \in Consumers :
        /\ subscribed[c]
        /\ LET a == handle[c]
               left == [atoms[a] EXCEPT !.listeners = @ \ {c}]
           IN IF left.listeners = {}
              THEN /\ atoms' = [atoms EXCEPT ![a] = OnUnmount(left)]
                   /\ atomsMap' = MapAfterUnmount(left)
              ELSE /\ atoms' = [atoms EXCEPT ![a] = left]
                   /\ UNCHANGED atomsMap
        /\ subscribed' = [subscribed EXCEPT ![c] = FALSE]
        /\ UNCHANGED <<handle, fsVars, bootVars, winVars>>

\* The interval fires: set() makes the store read the atom again, which starts
\* a fetch, and the promise of that fetch becomes the value of the atom.  A
\* promise it replaces is dropped with whatever it resolves to.
Tick ==
    \E a \in 1..Len(atoms) :
        /\ atoms[a].timers > 0
        /\ atoms' = [atoms EXCEPT ![a] = [@ EXCEPT !.value = Pending]]
        /\ UNCHANGED <<atomsMap, handle, subscribed, fsVars, bootVars, winVars>>

\* The fetch completes: the promise of the atom that started it resolves.
Complete ==
    \E a \in 1..Len(atoms) :
        /\ atoms[a].value = Pending
        /\ atoms' = [atoms EXCEPT ![a] =
                        [@ EXCEPT !.value = Resolved(ReadAtom(atoms[a].key)),
                                  !.lastGood = Resolved(ReadAtom(atoms[a].key))]]
        /\ UNCHANGED <<atomsMap, handle, subscribed, fsVars, bootVars, winVars>>

\* The fetch fails: the backing store fails the read, the Drive and then
\* getFolder / getFile throw, and the promise of the atom rejects.  The read
\* function catches nothing and the atom keeps no earlier value.
Fail ==
    \E a \in 1..Len(atoms) :
        /\ atoms[a].value = Pending
        /\ atoms' = [atoms EXCEPT ![a] = [@ EXCEPT !.value = Rejected(StoreFailure)]]
        /\ UNCHANGED <<atomsMap, handle, subscribed, fsVars, bootVars, winVars>>

NextCache ==
    \/ GetFolderAtom
    \/ GetFileAtom
    \/ Subscribe
    \/ Unsubscribe
    \/ Tick
    \/ Complete
    \/ Fail

\* The cache reads the file system and never writes it: one mount table is
\* enough for it.
InitCache == Init /\ DOMAIN mountedDrives = {X}

SpecCache == InitCache /\ [][NextCache]_vars

-----------------------------------------------------------------------------
(* move, on stores that hold something to move *)

\* A store with the file /a, and one with the folder /a and the file /a/b.
MoveStores ==
    { WithEntries(EmptyStore, <<SegA>> :> FileNode("hi")),
      WithEntries(EmptyStore, <<SegA, SegB>> :> FileNode("yo")) }

MovePaths ==
    { PathOf(<<SegA>>),
      PathOf(<<SegB>>),
      PathOf(<<MNT, X, SegA>>),
      PathOf(<<MNT, X, SegB>>),
      PathOf(<<MNT, Y, SegB>>),
      PathOf(<<MNT, Y, SegA, SegB>>) }

MoveCall(oldPath, newPath) ==
    [op |-> "move", path |-> oldPath, newPath |-> newPath, depth |-> NoDepth,
     content |-> NoContent, item |-> Null]

Move ==
    \E oldPath \in MovePaths, newPath \in MovePaths :
        Ran(MoveCall(oldPath, newPath), move(oldPath, newPath))

InitMove ==
    \E root \in MoveStores, onX \in MoveStores, onY \in { EmptyStore } \cup MoveStores :
        Constructed(root, (X :> onX) @@ (Y :> onY))

SpecMove == InitMove /\ [][Move]_vars

-----------------------------------------------------------------------------
(* getFolder, on drives whose storage may be gone *)

\* The store of a drive whose storage root no longer exists: nothing is there,
\* not even "/", and every read of it returns null.
GoneStore == [p \in {} |-> FolderNode]

InitRoot ==
    \E root \in { EmptyStore } \cup MoveStores, names \in MountTables \ { {} } :
        \E mounted \in [names -> { EmptyStore, GoneStore } \cup MoveStores] :
            Constructed(root, mounted)

SpecRoot == InitRoot /\ [][GetFolder]_vars

-----------------------------------------------------------------------------
(* The runs of setupDefaultDirectories, and hasSystemData *)

NoFile == "none"

\* What the root storage can hold when the FsManager is constructed over it:
\* any of the well-known folders, the registry file with some content or none,
\* or a file where the system folder is to be.
StoreHolding(folders, registry) ==
    WithEntries(EmptyStore,
                [p \in folders \cup (IF registry = NoFile THEN {} ELSE { DriveSegs(REGISTRY_PATH) }) |->
                    IF p = DriveSegs(REGISTRY_PATH) THEN FileNode(registry) ELSE FolderNode])

BootStores ==
    { StoreHolding(folders, registry) :
        folders \in SUBSET { DriveSegs(defaultDirs[i]) : i \in 1..Len(defaultDirs) },
        registry \in { NoFile, "{}", "hi" } }
    \cup { WithEntries(EmptyStore, DriveSegs(SYSTEM_PATH) :> FileNode("hi")) }

InitBoot == \E root \in BootStores : Constructed(root, (X :> EmptyStore))

\* A run makes the call it awaits and goes on with what the call gave.
SetupStep(r) ==
    /\ boot[r].pc \in AwaitedCalls
    /\ LET eff == AwaitedCall(boot[r]) IN
        /\ rootStore' = eff.root
        /\ mountedDrives' = eff.mounted
        /\ boot' = [boot EXCEPT ![r] =
                        Resume([boot[r] EXCEPT !.made =
                                    IF boot[r].pc \in { "createFolder", "writeFile" }
                                    THEN @ + 1 ELSE @],
                               eff.value)]
    /\ UNCHANGED <<call, deleg, result, ops, probe, cacheVars, winVars>>

SetupRun == \E r \in Runs : SetupStep(r)

\* A client calls setupDefaultDirectories().
CallSetup ==
    \E r \in Runs \ { ByConstructor } :
        /\ boot[r].pc = "idle"
        /\ \A q \in Runs \ { ByConstructor } : q < r => boot[q].pc # "idle"
        /\ boot' = [boot EXCEPT ![r] =
                        Started("client", \E q \in Runs : boot[q].pc = "returned")]
        /\ UNCHANGED <<fsVars, probe, cacheVars, winVars>>

NextBoot ==
    \/ CallSetup
    \/ SetupRun

SpecBoot == InitBoot /\ [][NextBoot]_vars

\* A client calls hasSystemData(), and the call returns.
HsdCall ==
    /\ probe.pc # "called"
    /\ probe' = [pc |-> "called", atStart |-> IsFolder(rootStore, DriveSegs(SYSTEM_PATH)),
                 value |-> FALSE]
    /\ UNCHANGED <<fsVars, boot, cacheVars, winVars>>

HsdReturn ==
    /\ probe.pc = "called"
    /\ LET eff == hasSystemData IN
        /\ rootStore' = eff.root
        /\ mountedDrives' = eff.mounted
        /\ probe' = [probe EXCEPT !.pc = "returned", !.value = eff.value]
    /\ UNCHANGED <<call, deleg, result, ops, boot, cacheVars, winVars>>

\* A client writes the registry file.
WriteRegistry ==
    \E content \in Contents :
        Step("writeFile", REGISTRY_PATH, Arg(NoDepth, content, Null),
             writeFile(REGISTRY_PATH, content))

NextStartup ==
    \/ SetupRun
    \/ HsdCall
    \/ HsdReturn
    \/ WriteRegistry

SpecStartup == InitBoot /\ [][NextStartup]_vars

-----------------------------------------------------------------------------
(* The window *)

WindowStep(action) ==
    /\ winOps < MaxWinOps
    /\ winOps' = winOps + 1
    /\ win' = windowReducer(win, action)
    /\ UNCHANGED <<fsVars, cacheVars, bootVars>>

ToggleMaximize == WindowStep([type |-> "TOGGLE_MAXIMIZE"])
ToggleMinimize == WindowStep([type |-> "TOGGLE_MINIMIZE"])
Restore == WindowStep([type |-> "RESTORE"])
MoveWindow == \E payload \in Moves : WindowStep([type |-> "MOVE", payload |-> payload])
InitWindow == \E payload \in Inits : WindowStep([type |-> "INIT", payload |-> payload])
Resize ==
    \E side \in Sides, dx \in Deltas, dy \in Deltas :
        WindowStep([type |-> "RESIZE", payload |-> [side |-> side, dx |-> dx, dy |-> dy]])

NextWindow ==
    \/ ToggleMaximize
    \/ ToggleMinimize
    \/ Restore
    \/ MoveWindow
    \/ InitWindow
    \/ Resize

\* The window atom does not depend on the file system.
InitAlone == Constructed(EmptyStore, [n \in {} |-> EmptyStore])

SpecWindow == InitAlone /\ [][NextWindow]_vars

-----------------------------------------------------------------------------
(* Properties of the router and of the delegation *)

RoutedOps == { "writeFile", "createFolder", "delete", "getItem", "getFile", "insert",
               "getFolder" }
ReadOps == { "getItem", "getFolder", "getFile" }

\* The path addresses a mounted drive: its second segment is "mnt" and its
\* third is the name of a drive of the mount table.
Matched(path) ==
    LET s == Split(path) IN
    Len(s) >= 3 /\ s[2] = MNT /\ s[3] # EmptyStr /\ s[3] \in DOMAIN mountedDrives

DriveNameOf(path) == Split(path)[3]

\* The characters of the path after its first three segments.
RestOf(path) ==
    LET s == Split(path) IN
    SubSeq(path, Len(s[1]) + Len(s[2]) + Len(s[3]) + 3, Len(path))

\* What follows the drive name, or "/" when nothing does.
ExpectedRelative(path) == IF RestOf(path) = EmptyStr THEN Slash ELSE RestOf(path)

IsRootListing(c) == c.op = "getFolder" /\ c.path = Slash

\* C1. Matched mount routing: an operation on a path whose second segment is
\* "mnt" and whose third segment names a mounted drive makes exactly one Drive
\* call, on that drive and never on the root Drive, with the path "/" followed
\* by the rest of the segments, which is "/" when none follows the drive name.
C1_MatchedRouting ==
    (call.op \in RoutedOps /\ Matched(call.path)) =>
        deleg = { DriveCall(Mounted(DriveNameOf(call.path)), call.op,
                            ExpectedRelative(call.path)) }

C1_Witness ==
    /\ call.op = "insert"
    /\ call.path = PathOf(<<MNT, X, SegA, SegB>>)
    /\ deleg = { DriveCall(Mounted(X), "insert", PathOf(<<SegA, SegB>>)) }
    /\ result = Void

\* C2. Unmatched mount fallback: an operation on a path that addresses no
\* mounted drive (the second segment is not exactly "mnt", or the drive name is
\* missing, empty or not in the mount table) makes exactly one Drive call, on
\* the root Drive with the path unchanged, and the router raises no error.
C2_UnmatchedFallback ==
    (call.op \in RoutedOps /\ ~Matched(call.path) /\ ~IsRootListing(call)) =>
        /\ deleg = { DriveCall(RootDrive, call.op, call.path) }
        /\ result # TypeError

\* C3. Transparent rewriting: a writeFile through FsManager on "/mnt/X" + r that
\* succeeds leaves the content at r on drive X (a deep getFile on that Drive
\* returns it), changes drive X nowhere but at r and its missing ancestors, and
\* leaves the root Drive and every other mounted drive as they were.
C3_TransparentRewriting ==
    [][ (ops' = ops + 1 /\ call'.op = "writeFile" /\ Matched(call'.path)
            /\ ~IsError(result')) =>
        LET name == DriveNameOf(call'.path)
            r == ExpectedRelative(call'.path)
            got == DriveGetFile(mountedDrives'[name], r, "deep").value
        IN /\ got.type = "file"
           /\ got.content = call'.content
           /\ rootStore' = rootStore
           /\ \A n \in DOMAIN mountedDrives \ {name} : mountedDrives'[n] = mountedDrives[n]
           /\ \A q \in DOMAIN mountedDrives[name] :
                 ~IsPrefix(q, DriveSegs(r)) =>
                    (q \in DOMAIN mountedDrives'[name]
                        /\ mountedDrives'[name][q] = mountedDrives[name][q])
           /\ \A q \in DOMAIN mountedDrives'[name] :
                 q \in DOMAIN mountedDrives[name] \/ IsPrefix(q, DriveSegs(r))
      ]_fsVars

C3_Witness ==
    /\ call.op = "writeFile"
    /\ call.path = PathOf(<<MNT, X, SegA, SegB>>)
    /\ result = Void
    /\ Y \in DOMAIN mountedDrives
    /\ rootStore # EmptyStore
    /\ mountedDrives[Y] = EmptyStore
    /\ DriveGetFile(mountedDrives[X], PathOf(<<SegA, SegB>>), "deep").value
            = DeepFile(SegB, call.content)

\* C4. Mount injection: with one or more drives mounted, getFolder("/",
\* "shallow") returns a folder whose child "mnt" is a folder with one child per
\* mounted drive name and no other, each a name-only folder placeholder, also
\* when the root store holds an entry of its own named "mnt".
C4_MountInjection ==
    (IsRootListing(call) /\ call.depth = "shallow" /\ DOMAIN mountedDrives # {}) =>
        /\ result.type = "folder"
        /\ MNT \in DOMAIN result.items
        /\ result.items[MNT].type = "folder"
        /\ result.items[MNT].name = MNT
        /\ DOMAIN result.items[MNT].items = DOMAIN mountedDrives
        /\ \A n \in DOMAIN mountedDrives : result.items[MNT].items[n] = FolderStub(n)
        /\ DOMAIN result.items = ChildNames(rootStore, <<>>) \cup {MNT}

C4_Witness ==
    /\ IsRootListing(call) /\ call.depth = "shallow"
    /\ DOMAIN mountedDrives = {X, Y}
    /\ IsFile(rootStore, <<MNT>>)
    /\ result.items[MNT].type = "folder"

\* C5 as claimed: with no drive mounted, getFolder("/", "shallow") never lists
\* an entry named "mnt".
C5_NoMntWithoutMounts ==
    (IsRootListing(call) /\ call.depth = "shallow" /\ DOMAIN mountedDrives = {}
        /\ result.type = "folder") =>
        MNT \notin DOMAIN result.items

\* C5 as amended: with no drive mounted, getFolder("/", "shallow") returns
\* the root Drive's own listing with nothing added: it lists "mnt" exactly when
\* the root store itself holds an entry of that name.
C5_NoInjectionWithoutMounts ==
    (IsRootListing(call) /\ call.depth = "shallow" /\ DOMAIN mountedDrives = {}) =>
        /\ result = ShallowNode(rootStore, <<>>)
        /\ (MNT \in DOMAIN result.items <=> Exists(rootStore, <<MNT>>))

C5_Witness ==
    /\ IsRootListing(call) /\ call.depth = "shallow"
    /\ DOMAIN mountedDrives = {}
    /\ IsFolder(rootStore, <<MNT, X>>)
    /\ result.items[MNT] = FolderStub(MNT)

\* The nodes the stores hold, as a read at the given depth returns them.
RealNodes(depth) ==
    { NodeAt(rootStore, q, depth) : q \in DOMAIN rootStore }
    \cup UNION { { NodeAt(mountedDrives[n], q, depth) : q \in DOMAIN mountedDrives[n] } :
                    n \in DOMAIN mountedDrives }

\* C6. The synthetic "mnt" node comes from getFolder("/") alone: every other
\* read returns null, or a node that a Drive's store holds, or throws; and no
\* read changes any store.
C6_InjectionOnlyAtRoot ==
    [][ (ops' = ops + 1 /\ call'.op \in ReadOps) =>
        /\ rootStore' = rootStore
        /\ mountedDrives' = mountedDrives
        /\ (~IsRootListing(call') =>
                result' \in RealNodes(call'.depth) \cup { Null, TypeError })
      ]_fsVars

C6_Witness ==
    /\ call.op = "getItem" /\ call.path = Slash /\ call.depth = "shallow"
    /\ DOMAIN mountedDrives = {X}
    /\ result = ShallowNode(rootStore, <<>>)
    /\ IsFolder(rootStore, <<MNT>>)

\* C7. Depth consistency: a getFolder that returned a folder has the child
\* names that the read of the same path at the other depth has on the same
\* stores, and for "/" with mounted drives the "mnt" child has the same child
\* names at both depths.
OtherDepth(depth) == IF depth = "deep" THEN "shallow" ELSE "deep"

C7_DepthConsistency ==
    (call.op = "getFolder" /\ result.type = "folder") =>
        LET other == getFolder(call.path, OtherDepth(call.depth)).value IN
        /\ other.type = "folder"
        /\ other.name = result.name
        /\ DOMAIN other.items = DOMAIN result.items
        /\ (call.path = Slash /\ DOMAIN mountedDrives # {} =>
                DOMAIN other.items[MNT].items = DOMAIN result.items[MNT].items)

C7_Witness ==
    /\ IsRootListing(call) /\ call.depth = "deep"
    /\ DOMAIN mountedDrives = {X, Y}
    /\ IsFile(mountedDrives[X], <<SegA, SegB>>)
    /\ DOMAIN result.items[MNT].items = {X, Y}
    /\ result.items[MNT].items[X] = DeepNode(mountedDrives[X], <<>>)

-----------------------------------------------------------------------------
(* Properties of the atom cache *)

AtomIds == 1..Len(atoms)
AtomsOf(key) == { a \in AtomIds : atoms[a].key = key }
SubscribersOf(key) == { c \in Consumers : subscribed[c] /\ atoms[handle[c]].key = key }

RECURSIVE SumTimers(_)
SumTimers(as) ==
    IF as = {} THEN 0
    ELSE LET a == CHOOSE x \in as : TRUE IN atoms[a].timers + SumTimers(as \ {a})

\* C8. Shared cache entry: the consumers subscribed under one key all hold the
\* same atom, and exactly one refresh timer runs for a key that has
\* subscribers, however many they are.
C8_SharedEntry ==
    \A key \in Keys :
        /\ \A c1, c2 \in SubscribersOf(key) : handle[c1] = handle[c2]
        /\ SubscribersOf(key) # {} => SumTimers(AtomsOf(key)) = 1

\* C9. Cache teardown: while an atom keeps a subscriber it stays the entry of
\* its key and its timer keeps running; when its last subscriber leaves, its
\* timer stops and the key has no entry; and the atom then made for the key is
\* another one.
C9_Teardown ==
    [][ /\ \A a \in AtomIds :
            (atoms[a].listeners # {} /\ atoms'[a].listeners # {}
                /\ atomsMap[atoms[a].key] = a) =>
                (atomsMap'[atoms[a].key] = a /\ atoms'[a].timers = 1)
        /\ \A a \in AtomIds :
            (atoms[a].listeners # {} /\ atoms'[a].listeners = {}) =>
                (atoms'[a].timers = 0 /\ atomsMap'[atoms[a].key] = NoAtom)
        /\ \A c \in Consumers, a \in AtomIds :
            (atoms[a].removed /\ handle'[c] # handle[c]) => handle'[c] # a
      ]_vars

\* C10. No write into a removed entry: for an atom whose last subscriber has
\* left, no fetch is started any more, and a fetch of it that completes
\* stores its result in no entry of the cache.
C10_NoWriteIntoRemoved ==
    [][ \A a \in AtomIds :
            atoms[a].removed =>
                /\ (atoms'[a].value = Pending => atoms[a].value = Pending)
                /\ (atoms'[a].value # atoms[a].value =>
                        \A key \in Keys : atomsMap'[key] # a)
      ]_vars

\* What a subscriber of the atom gets from the store: the promise the atom holds.
Observed(atom) == atom.value

\* C11. A failed refresh does not clear a good value: an atom that has resolved
\* to a snapshot and whose later refresh failed still holds that snapshot, and
\* its subscribers observe it.
C11_FailedRefreshKeepsValue ==
    \A a \in AtomIds :
        (atoms[a].lastGood # Unread /\ atoms[a].value.type = "rejected") =>
            Observed(atoms[a]) = atoms[a].lastGood

-----------------------------------------------------------------------------
(* Properties of move *)

\* Where the router sends a path: the drive, and the segments on that drive.
ResolvedDrive(path) == IF Matched(path) THEN Mounted(DriveNameOf(path)) ELSE RootDrive
ResolvedSegs(path) == DriveSegs(IF Matched(path) THEN ExpectedRelative(path) ELSE path)

Drives == { RootDrive } \cup { Mounted(n) : n \in DOMAIN mountedDrives }
StoreAfter(drive) == IF drive.kind = "root" THEN rootStore' ELSE mountedDrives'[drive.name]

\* C12. move ends at the requested destination: after a move that succeeded
\* nothing is at the place oldPath resolves to and the item is at the place
\* newPath resolves to; and when the two paths resolve to different drives, no
\* node appears anywhere but at that place, below it, or as a missing ancestor
\* of it.
C12_MoveDestination ==
    [][ (ops' = ops + 1 /\ call'.op = "move" /\ ~IsError(result')) =>
        LET fromDrive == ResolvedDrive(call'.path)
            fromSegs == ResolvedSegs(call'.path)
            toDrive == ResolvedDrive(call'.newPath)
            toSegs == ResolvedSegs(call'.newPath)
        IN /\ ~Exists(StoreAfter(fromDrive), fromSegs)
           /\ Exists(StoreAfter(toDrive), toSegs)
           /\ StoreAfter(toDrive)[toSegs] = StoreOf(fromDrive)[fromSegs]
           /\ fromDrive # toDrive =>
                \A d \in Drives :
                    \A q \in DOMAIN StoreAfter(d) \ DOMAIN StoreOf(d) :
                        d = toDrive /\ (IsPrefix(toSegs, q) \/ IsPrefix(q, toSegs))
      ]_fsVars

-----------------------------------------------------------------------------
(* Properties of the start-up run and of the probe *)

SystemSegs == DriveSegs(SYSTEM_PATH)
RegistrySegs == DriveSegs(REGISTRY_PATH)

\* The three well-known folders and the registry file are there.
WellKnownExist ==
    /\ \A i \in 1..Len(defaultDirs) : IsFolder(rootStore, DriveSegs(defaultDirs[i]))
    /\ IsFile(rootStore, RegistrySegs)

\* C13. Idempotent bootstrap: once a run of setupDefaultDirectories has
\* returned, the three folders and the registry file exist; and a run started
\* after that makes no createFolder and no writeFile call, changes no store
\* (so the registry keeps its content) and throws nothing.
C13_IdempotentBootstrap ==
    [][ /\ (\E r \in Runs : boot[r].pc = "returned") => WellKnownExist
        /\ \A r \in Runs :
            (boot[r].again /\ boot'[r] # boot[r]) =>
                /\ rootStore' = rootStore
                /\ mountedDrives' = mountedDrives
                /\ boot'[r].made = 0
                /\ boot'[r].pc # "threw"
      ]_vars

C13_Witness ==
    \E r \in Runs :
        /\ boot[ByConstructor].pc = "returned"
        /\ boot[ByConstructor].made = Len(defaultDirs) + 1
        /\ boot[r].again
        /\ boot[r].pc = "returned"
        /\ boot[r].made = 0
        /\ rootStore[RegistrySegs] = FileNode("{}")

\* C14. Error propagation: when a Drive call made for an FsManager operation
\* fails, the caller of that operation receives that failure and nothing else;
\* here for the Drive calls of setupDefaultDirectories, whoever started it.
C14_ErrorPropagation ==
    \A r \in Runs : boot[r].pc = "threw" => Received(boot[r]) = boot[r].error

\* C15. Existence probe: a call of hasSystemData returns false when no folder
\* is at the system path of the root Drive while it runs, returns true when
\* the folder was there before the call started, and changes no store.
C15_ExistenceProbe ==
    [][ (probe.pc = "called" /\ probe'.pc = "returned") =>
            /\ (~IsFolder(rootStore, SystemSegs) => probe'.value = FALSE)
            /\ (probe.atStart => probe'.value = TRUE)
            /\ rootStore' = rootStore
            /\ mountedDrives' = mountedDrives
      ]_vars

C15_Witness ==
    /\ probe.pc = "returned"
    /\ probe.atStart
    /\ probe.value = TRUE
    /\ boot[ByConstructor].made = Len(defaultDirs) + 1

\* C17. Bootstrap never overwrites a registry file: when a run of
\* setupDefaultDirectories makes its writeFile call and the registry file
\* exists with a content other than "{}", the file keeps that content.
C17_RegistryKept ==
    [][ \A r \in Runs :
            (boot[r].pc = "writeFile" /\ boot'[r].pc # "writeFile"
                /\ IsFile(rootStore, RegistrySegs)
                /\ rootStore[RegistrySegs].content # "{}") =>
                rootStore'[RegistrySegs] = rootStore[RegistrySegs]
      ]_vars

-----------------------------------------------------------------------------
(* More properties of the atom cache and of the root listing *)

\* C16. At most one live atom per key: every atom that has a subscriber is the
\* atom the map holds under its key (so that no unsubscribe has removed the
\* entry of an atom that is still subscribed), and at most one refresh timer
\* runs per key.
C16_OneLiveAtomPerKey ==
    /\ \A a \in AtomIds : atoms[a].listeners # {} => atomsMap[atoms[a].key] = a
    /\ \A key \in Keys : SumTimers(AtomsOf(key)) <= 1

\* C18. No partial deep root: a getFolder("/", "deep") with mounted drives that
\* returned a folder has under "mnt" one child for every mounted drive, each a
\* resolved folder and none null or missing.
C18_NoPartialDeepRoot ==
    (IsRootListing(call) /\ call.depth = "deep" /\ DOMAIN mountedDrives # {}
        /\ result.type = "folder") =>
        /\ MNT \in DOMAIN result.items
        /\ DOMAIN result.items[MNT].items = DOMAIN mountedDrives
        /\ \A n \in DOMAIN mountedDrives :
              /\ result.items[MNT].items[n] # Null
              /\ result.items[MNT].items[n].type = "folder"

-----------------------------------------------------------------------------
(* Properties of the window reducer *)

ResizeAction(side, dx, dy) ==
    [type |-> "RESIZE", payload |-> [side |-> side, dx |-> dx, dy |-> dy]]

\* C19. Minimum size: in every state the window reaches, size.width >= 300 and
\* size.height is "auto" or >= 100.
C19_MinimumSize ==
    /\ win.size.width >= 300
    /\ (win.size.height = Auto \/ win.size.height.n >= 100)

C19_Witness ==
    /\ winOps > 0
    /\ win.size = [width |-> 300, height |-> Px(100)]
    /\ win.status = "maximized"

LeftSides == { "left", "top-left", "bottom-left" }
TopSides == { "top", "top-left", "top-right" }

\* C20. Resize keeps the opposite edge in place: a RESIZE on a side that
\* includes "left" leaves pos.x + size.width as it was, and one on a side that
\* includes "top", on a window whose height is a number, leaves
\* pos.y + size.height as it was, also when the size is clamped.
C20_ResizeAnchored ==
    [][ \A side \in Sides, dx \in Deltas, dy \in Deltas :
            (winOps' = winOps + 1 /\ win' = windowReducer(win, ResizeAction(side, dx, dy))) =>
                /\ (side \in LeftSides =>
                        win'.pos.x + win'.size.width = win.pos.x + win.size.width)
                /\ (side \in TopSides /\ win.size.height # Auto =>
                        win'.pos.y + win'.size.height.n = win.pos.y + win.size.height.n)
      ]_vars

====
